---- MODULE Spec2Model ----
(***************************************************************************)
(* Model of micropAsyncWeb.py: the route table (registration, compile,     *)
(* sort) and the per-connection task MicropAsyncWeb.handle.                *)
(*                                                                         *)
(* Strings of the program that are taken apart (route patterns, urls,      *)
(* method lists, file names) are sequences of one-character strings;       *)
(* "GET" and "POST" stand for whole method tokens.                         *)
(*                                                                         *)
(* Spec is the server with one connection at a time and every fault of     *)
(* the transport, the file system and the handlers.  SpecTwice adds an     *)
(* application that calls compileRegexRoutes itself, SpecStar a pattern    *)
(* and a path spelt with two "*", SpecHeaders header blocks ended by a     *)
(* line that is not blank, SpecTasks a second connection interleaved at    *)
(* the awaits, and SpecLive states the fairness of the event loop.         *)
(***************************************************************************)
EXTENDS Integers, Sequences, FiniteSets, TLC

\* ------------------------------------------------------------------ bounds
\* routes registered by the application besides the two default ones
MaxRoutes == 1
\* header lines the peer sends before the line that ends the headers
MaxHeaderLines == 1
\* blocks a served file is read in
MaxBlocks == 1
\* callables a handler chain may return one after another
MaxChain == 1
\* exceptions the environment (transport, file system, application handlers)
\* raises within one connection
MaxFaults == 1
\* calls of compileRegexRoutes the application makes itself before runAsync
MaxCompiles == 1

\* ------------------------------------------------------- string helpers
RECURSIVE Replace(_, _, _)
\* str.replace(old, new) for a one-character old and a sequence new
Replace(s, old, new) ==
    IF s = <<>> THEN <<>>
    ELSE (IF Head(s) = old THEN new ELSE <<Head(s)>>) \o Replace(Tail(s), old, new)

RECURSIVE SplitAcc(_, _, _)
SplitAcc(s, sep, cur) ==
    IF s = <<>> THEN <<cur>>
    ELSE IF Head(s) = sep THEN <<cur>> \o SplitAcc(Tail(s), sep, <<>>)
    ELSE SplitAcc(Tail(s), sep, Append(cur, Head(s)))

\* str.split(sep): the pieces between the occurrences of sep, empty ones kept
Split(s, sep) == SplitAcc(s, sep, <<>>)

RECURSIVE Count(_, _)
\* str.count(c)
Count(s, c) ==
    IF s = <<>> THEN 0 ELSE (IF Head(s) = c THEN 1 ELSE 0) + Count(Tail(s), c)

\* c in s
Contains(s, c) == \E i \in 1..Len(s) : s[i] = c

\* ----------------------------------------------------------- route table
fileRouteHandler == [kind |-> "callable", val |-> "fileRouteHandler"]
NoHandler == [kind |-> "none", val |-> "none"]
Callable(n) == [kind |-> "callable", val |-> n]
FilePath(p) == [kind |-> "str", val |-> p]

\* a routeConfig list [route, handler, methods, regex...]: the entries from
\* index 3 on are the matchers compileRegexRoutes appended
RouteConfig(p, h, m) == [pattern |-> p, handler |-> h, methods |-> m, regex |-> <<>>]

\* len(routeConfig)
RouteLen(rc) == 3 + Len(rc.regex)

\* MicropAsyncWeb.__init__: the two default routes
DefaultRoutes ==
    << RouteConfig(<<"/">>, fileRouteHandler, <<"GET">>),
       RouteConfig(<<"/", "*">>, fileRouteHandler, <<"GET">>) >>

\* the routes the application registers with the route decorator, or hands to
\* appendRoutes with their methods (pattern, handler, methods)
RoutePool ==
    { RouteConfig(<<"/", "a">>, Callable("h1"), <<"GET">>),
      RouteConfig(<<"/", "*">>, Callable("h2"), <<"GET", ",", "POST">>) }

\* a route whose pattern holds two "*" next to each other
StarRoutePool ==
    { RouteConfig(<<"/", "*", "*">>, Callable("h1"), <<"GET">>) }

\* the routes the application hands to appendRoutes without a methods entry
ShortRoutePool ==
    { [pattern |-> <<"/", "*", "/", "*">>, handler |-> Callable("h2")] }

\* a sort key that tells no route from another
routeSorterFlat(rc) == 1

\* a sort key that counts the "/" of the pattern only
routeSorterSlashes(rc) == Len(Split(rc.pattern, "/"))

\* routeSorter: len(route.replace("*", "/").split("/"))
routeSorter(rc) == Len(Split(Replace(rc.pattern, "*", <<"/">>), "/"))

RECURSIVE InsertUnstable(_, _)
InsertUnstable(sorted, rc) ==
    IF sorted = <<>> THEN <<rc>>
    ELSE IF routeSorter(rc) <= routeSorter(Head(sorted)) THEN <<rc>> \o sorted
    ELSE <<Head(sorted)>> \o InsertUnstable(Tail(sorted), rc)

RECURSIVE Insert(_, _)
\* one step of a stable sort: rc goes after every entry whose key is <= its key
Insert(sorted, rc) ==
    IF sorted = <<>> THEN <<rc>>
    ELSE IF routeSorter(rc) < routeSorter(Head(sorted)) THEN <<rc>> \o sorted
    ELSE <<Head(sorted)>> \o Insert(Tail(sorted), rc)

RECURSIVE SortedFrom(_, _)
SortedFrom(rs, acc) ==
    IF rs = <<>> THEN acc ELSE SortedFrom(Tail(rs), Insert(acc, Head(rs)))

RECURSIVE SortedFromUnstable(_, _)
SortedFromUnstable(rs, acc) ==
    IF rs = <<>> THEN acc
    ELSE SortedFromUnstable(Tail(rs), InsertUnstable(acc, Head(rs)))

\* a sort that keeps the keys ascending but not the order of equal keys
sortedUnstable(rs) == SortedFromUnstable(rs, <<>>)

\* sorted(self.routes, key=routeSorter, reverse=False): Python's sort is stable
sorted(rs) == SortedFrom(rs, <<>>)

\* "^" + route.replace("*", "([^/]+)") + "$": the pattern with every "*"
\* replaced by the group token; the anchors are part of RegexMatch
reCompile(p) == Replace(p, "*", <<"([^/]+)">>)

\* a compile step that, for a routeConfig compiled before, puts the bare
\* pattern in front of its matchers
compileOneAnew(rc) ==
    IF Contains(rc.pattern, "*")
    THEN [rc EXCEPT !.regex = IF @ = <<>> THEN <<reCompile(rc.pattern)>>
                                ELSE <<rc.pattern>> \o @]
    ELSE rc

\* compileRegexRoutes on one routeConfig
compileOne(rc) ==
    IF Contains(rc.pattern, "*")
    THEN [rc EXCEPT !.regex = Append(@, reCompile(rc.pattern))]
    ELSE rc

\* compileRegexRoutes
compileRegexRoutes(rs) == [i \in 1..Len(rs) |-> compileOne(rs[i])]

\* ------------------------------------------------------- request parsing
NonEmpty(x) == x # <<>>

\* bytes.split(): the pieces between runs of white space
SplitWs(line) == SelectSeq(Split(line, " "), NonEmpty)

RECURSIVE Join(_, _)
Join(pieces, sep) ==
    IF pieces = <<>> THEN <<>>
    ELSE IF Len(pieces) = 1 THEN pieces[1]
    ELSE pieces[1] \o <<sep>> \o Join(Tail(pieces), sep)

\* a split that gives two pieces for a string without sep as well
SplitFirstPair(s, sep) ==
    LET ps == Split(s, sep)
    IN  IF Len(ps) <= 1 THEN <<s, <<>>>> ELSE <<ps[1], Join(Tail(ps), sep)>>

\* str.split(sep, 1): at most two pieces, cut at the first sep
SplitFirst(s, sep) ==
    LET ps == Split(s, sep)
    IN  IF Len(ps) <= 1 THEN ps ELSE <<ps[1], Join(Tail(ps), sep)>>

\* value.strip()
RECURSIVE LStrip(_)
LStrip(s) == IF s # <<>> /\ Head(s) = " " THEN LStrip(Tail(s)) ELSE s
RECURSIVE RStrip(_)
RStrip(s) ==
    IF s # <<>> /\ s[Len(s)] = " " THEN RStrip(SubSeq(s, 1, Len(s) - 1)) ELSE s
Strip(s) == LStrip(RStrip(s))

\* self.url.replace("?", "#").split("#")[0]
PathOf(url) == Split(Replace(url, "?", <<"#">>), "#")[1]

\* Request.getFilename: self.path.split("/")[-1]
getFilename(path) == LET ps == Split(path, "/") IN ps[Len(ps)]

\* Request.getFileExtension(filename): filename.split(".")[-1]
getFileExtension(filename) == LET ps == Split(filename, ".") IN ps[Len(ps)]

\* a list of headers to keep that also holds a lower-case name
requestHeadersToKeepLower ==
    {<<"Authorization">>, <<"Content-Length">>, <<"Content-Type">>, <<"content-type">>}

\* MicropAsyncWeb.requestHeadersToKeep
requestHeadersToKeep == {<<"Authorization">>, <<"Content-Length">>, <<"Content-Type">>}

\* a version check that lets every non-empty version through
VersionSupportedLax(v) == v # <<>>

\* request.version not in ("HTTP/1.0", "HTTP/1.1") is the negation of this
VersionSupported(v) == v \in {<<"HTTP/1.0">>, <<"HTTP/1.1">>}

\* constructor defaults: webroot=".", indexFile="index.html"
webroot == <<".">>
indexFile == <<"index", ".", "html">>

\* a file route handler that does not put the index file in for an empty name
fileRouteNameBare(path) == webroot \o <<"/">> \o getFilename(path)

\* fileRouteHandler: the file name handed to sendFile, "%s/%s" % (webroot, filename)
fileRouteName(path) ==
    LET fn == getFilename(path)
    IN  webroot \o <<"/">> \o (IF fn = <<>> THEN indexFile ELSE fn)

\* Response.fileTypes, the entries the modelled names can hit, and the default
mimeType(filename) ==
    LET ext == getFileExtension(filename)
    IN  IF ext = <<"html">> THEN "text/html"
        ELSE IF ext = <<"txt">> THEN "text/plain"
        ELSE "application/octet-stream"

\* ------------------------------------------------------------- matching
\* a method check that lets every method through
MethodAllowedAny(rc, m) == TRUE

\* request.method not in routeConfig[2].split(",") is the negation of this
MethodAllowed(rc, m) ==
    LET ms == Split(rc.methods, ",") IN \E i \in 1..Len(ms) : ms[i] = m

\* the length of the longest prefix of s without "/"
RECURSIVE SegRun(_)
SegRun(s) == IF s = <<>> \/ Head(s) = "/" THEN 0 ELSE 1 + SegRun(Tail(s))

\* a matcher that accepts every path
ReMatchAll(re, s) == [ok |-> TRUE, groups |-> [g \in 1..Len(re) |-> s]]

RECURSIVE ReMatch(_, _)
RECURSIVE ReGroup(_, _, _)
\* the group ([^/]+) taking n characters, n tried from the longest run down (greedy)
ReGroup(re, s, n) ==
    IF n < 1 THEN [ok |-> FALSE, groups |-> <<>>]
    ELSE LET r == ReMatch(Tail(re), SubSeq(s, n + 1, Len(s)))
         IN  IF r.ok THEN [ok |-> TRUE, groups |-> <<SubSeq(s, 1, n)>> \o r.groups]
             ELSE ReGroup(re, s, n - 1)

\* regex.match(path) for a compiled "^...$": the whole of s against the tokens
ReMatch(re, s) ==
    IF re = <<>> THEN [ok |-> s = <<>>, groups |-> <<>>]
    ELSE IF Head(re) = "([^/]+)" THEN ReGroup(re, s, SegRun(s))
    ELSE IF s # <<>> /\ Head(s) = Head(re) THEN ReMatch(Tail(re), Tail(s))
    ELSE [ok |-> FALSE, groups |-> <<>>]

\* for group in range(1, route.count("*") + 1): match.group(group)
Groups(rc, m) == [g \in 1..Count(rc.pattern, "*") |-> m.groups[g]]

\* ------------------------------------------------------------ exceptions
NoError == [type |-> "none", code |-> 0, what |-> "none"]
HttpError(code, reason) == [type |-> "HttpError", code |-> code, what |-> reason]
OSError(errno) == [type |-> "OSError", code |-> 0, what |-> errno]
OtherError == [type |-> "Exception", code |-> 0, what |-> "Exception"]

\* the transport faults an awaited read or write can raise
TransportFaults == {"ECONNRESET", "EIO"}

\* Response.sendFile's except clause: ENOENT becomes HttpError 404, any other
\* OSError is raised again
sendFileExcept(errno) ==
    IF errno # "ENOENT" THEN OSError(errno) ELSE HttpError(404, "File Not Found")

\* ---------------------------------------------------------------- inputs
Urls ==
    { <<"/">>, <<"/", "a">>, <<"/", "a", "/", "b">>, <<"/", "*">>,
      <<"/", "a", "?", "q">>, <<"/", "index", ".", "html">> }

\* the request lines the peer sends (without the line end)
RequestLines ==
    { <<>>, <<"GET", " ", "/">> }
    \cup { <<m, " ">> \o u \o <<" ", v>> :
             m \in {"GET", "POST"}, u \in Urls, v \in {"HTTP/1.1", "HTTP/0.9"} }
    \cup { <<"GET", " ", "/", " ", "HTTP/1.0">> }

\* the header lines the peer sends; <<>> is the blank line (or end of stream)
HeaderLines ==
    { <<"Content-Type", ":", " ", "v">>, <<"Host", ":", "v">>,
      <<"content-type", ":", "v">> }

\* lines without ":" other than the blank line
NoColonLines == { <<"x">> }

\* ------------------------------------------------------------------ state
VARIABLES
    routes,     \* self.routes
    started,    \* runAsync has compiled and sorted the table
    regOrder,   \* history: the routes in registration order
    pc,         \* where the per-connection task stands
    method,     \* request.method
    path,       \* request.path
    version,    \* request.version
    headers,    \* request.headers
    reqRoute,   \* request.route
    params,     \* request.params
    found,      \* handle's found
    idx,        \* handle's position in self.routes (0: the loop has not begun)
    via,        \* how the route in hand matched: "exact", "regex" or "none"
    handler,    \* generateOutput's handler
    filename,   \* sendFile's filename
    fileOpen,   \* sendFile holds an open file handle
    blocks,     \* blocks sendFile has read
    err,        \* the HttpError the error path answers
    raised,     \* the exception that leaves handle
    closed,     \* writer.aclose has been called
    written,    \* what was written to the stream
    linesRead,  \* reader.readline calls that returned
    nItems,     \* history: the tokens the request line split into
    hdrLine,    \* history: the line the header loop read last
    lastOpen,   \* history: the outcome of the last open()
    invoked,    \* history: the generateOutput calls of the route loop
    thrown,     \* history: the last exception the environment raised
    thrownAt,   \* history: where the task stood when it was raised
    faults,     \* history: how many exceptions the environment raised
    chain,      \* callables generateOutput was handed back
    cur,        \* which of the two per-connection tasks is running
    parked      \* the state of the task that waits at its suspension point

request == <<method, path, version, headers, reqRoute, params>>
table == <<routes, started, regOrder>>
task == <<pc, found, idx, via, handler, filename, fileOpen, blocks, err, raised, chain>>
stream == <<closed, written, linesRead>>
history == <<nItems, hdrLine, lastOpen, invoked, thrown, thrownAt, faults>>

sched == <<cur, parked>>

vars == <<table, request, task, stream, history, sched>>

GenPcs == {"gen", "open", "w_status", "w_ctype", "w_blank", "read", "w_data"}

\* the try of lines 229-237 is on the stack
InRouteTry == pc \in GenPcs /\ via = "regex"
\* the try of lines 192-243 is on the stack
InInnerTry == pc \in {"version", "headers", "scan", "endscan"} \cup GenPcs

\* a task that has not been handed a connection yet
NotStarted ==
    [ method |-> <<>>, path |-> <<>>, version |-> <<>>, headers |-> <<>>,
      reqRoute |-> <<>>, params |-> <<>>, pc |-> "idle", found |-> FALSE,
      idx |-> 0, via |-> "none", handler |-> NoHandler, filename |-> <<>>,
      fileOpen |-> FALSE, blocks |-> 0, err |-> NoError, raised |-> NoError,
      chain |-> 0, closed |-> FALSE, written |-> <<>>, linesRead |-> 0,
      nItems |-> 0, hdrLine |-> <<>>, lastOpen |-> "none", invoked |-> <<>>,
      thrown |-> NoError, thrownAt |-> "none", faults |-> 0 ]

\* the request, the locals, the stream and the history of the running task
Local ==
    [ method |-> method,
      path |-> path,
      version |-> version,
      headers |-> headers,
      reqRoute |-> reqRoute,
      params |-> params,
      pc |-> pc,
      found |-> found,
      idx |-> idx,
      via |-> via,
      handler |-> handler,
      filename |-> filename,
      fileOpen |-> fileOpen,
      blocks |-> blocks,
      err |-> err,
      raised |-> raised,
      chain |-> chain,
      closed |-> closed,
      written |-> written,
      linesRead |-> linesRead,
      nItems |-> nItems,
      hdrLine |-> hdrLine,
      lastOpen |-> lastOpen,
      invoked |-> invoked,
      thrown |-> thrown,
      thrownAt |-> thrownAt,
      faults |-> faults ]

Init ==
    /\ cur = 1
    /\ parked = NotStarted
    /\ routes = DefaultRoutes
    /\ started = FALSE
    /\ regOrder = DefaultRoutes
    /\ pc = "idle"
    /\ method = <<>> /\ path = <<>> /\ version = <<>>
    /\ headers = <<>> /\ reqRoute = <<>> /\ params = <<>>
    /\ found = FALSE /\ idx = 0 /\ via = "none"
    /\ handler = NoHandler /\ filename = <<>> /\ fileOpen = FALSE /\ blocks = 0
    /\ err = NoError /\ raised = NoError /\ chain = 0
    /\ closed = FALSE /\ written = <<>> /\ linesRead = 0
    /\ nItems = 0 /\ hdrLine = <<>> /\ lastOpen = "none" /\ invoked = <<>>
    /\ thrown = NoError /\ thrownAt = "none" /\ faults = 0

\* ----------------------------------------------------------- registration
\* the route decorator, and appendRoutes with a three-element route
route(rc) ==
    /\ ~started
    /\ Len(routes) < Len(DefaultRoutes) + MaxRoutes
    /\ routes' = Append(routes, rc)
    /\ regOrder' = Append(regOrder, rc)
    /\ UNCHANGED <<started, request, task, stream, history, sched>>

\* appendRoutes with a two-element route: "GET" is appended
appendRoutes(r) ==
    /\ ~started
    /\ Len(routes) < Len(DefaultRoutes) + MaxRoutes
    /\ routes' = Append(routes, RouteConfig(r.pattern, r.handler, <<"GET">>))
    /\ regOrder' = Append(regOrder, RouteConfig(r.pattern, r.handler, <<"GET">>))
    /\ UNCHANGED <<started, request, task, stream, history, sched>>

\* the application calls compileRegexRoutes itself, before runAsync does
callCompileRegexRoutes ==
    /\ ~started
    /\ \A i \in 1..Len(routes) : Len(routes[i].regex) < MaxCompiles
    /\ routes' = compileRegexRoutes(routes)
    /\ UNCHANGED <<started, regOrder, request, task, stream, history, sched>>

\* runAsync: compileRegexRoutes, sortRoutes, start_server
runAsync ==
    /\ ~started
    /\ routes' = sorted(compileRegexRoutes(routes))
    /\ started' = TRUE
    /\ UNCHANGED <<regOrder, request, task, stream, history, sched>>

\* ------------------------------------------------- the per-connection task
\* a Request whose __init__ makes no dict of its own: request.headers is the
\* dict of the class, as the other connection left it
acceptShared ==
    /\ started
    /\ pc \in {"idle", "done"}
    /\ pc' = "setup"
    /\ method' = <<>> /\ path' = <<>> /\ version' = <<>>
    /\ headers' = parked.headers /\ reqRoute' = <<>> /\ params' = <<>>
    /\ found' = FALSE /\ idx' = 0 /\ via' = "none"
    /\ handler' = NoHandler /\ filename' = <<>> /\ fileOpen' = FALSE /\ blocks' = 0
    /\ err' = NoError /\ raised' = NoError /\ chain' = 0
    /\ closed' = FALSE /\ written' = <<>> /\ linesRead' = 0
    /\ nItems' = 0 /\ hdrLine' = <<>> /\ lastOpen' = "none" /\ invoked' = <<>>
    /\ thrown' = NoError /\ thrownAt' = "none" /\ faults' = 0
    /\ UNCHANGED <<sched, table>>

\* start_server calls handle for an accepted connection: request = Request()
accept ==
    /\ started
    /\ pc \in {"idle", "done"}
    /\ pc' = "setup"
    /\ method' = <<>> /\ path' = <<>> /\ version' = <<>>
    /\ headers' = <<>> /\ reqRoute' = <<>> /\ params' = <<>>
    /\ found' = FALSE /\ idx' = 0 /\ via' = "none"
    /\ handler' = NoHandler /\ filename' = <<>> /\ fileOpen' = FALSE /\ blocks' = 0
    /\ err' = NoError /\ raised' = NoError /\ chain' = 0
    /\ closed' = FALSE /\ written' = <<>> /\ linesRead' = 0
    /\ nItems' = 0 /\ hdrLine' = <<>> /\ lastOpen' = "none" /\ invoked' = <<>>
    /\ thrown' = NoError /\ thrownAt' = "none" /\ faults' = 0
    /\ UNCHANGED <<sched, table>>

\* the frames of generateOutput, of the handler and of sendFile are left: their
\* locals are gone and the with block has closed the file
Unwind ==
    /\ via' = "none"
    /\ handler' = NoHandler
    /\ filename' = <<>>
    /\ blocks' = 0
    /\ chain' = 0
    /\ fileOpen' = FALSE

\* an exception raised where the task stands: which except clause takes it
Throw(exc) ==
    /\ Unwind
    /\ IF InRouteTry
       THEN \* except: request.params = [] and the for loop goes on
            /\ pc' = "scan"
            /\ idx' = idx + 1
            /\ params' = <<>>
            /\ UNCHANGED <<err, raised>>
       ELSE IF InInnerTry /\ exc.type = "HttpError"
       THEN \* except HttpError as e: Response.error(request, code, message)
            /\ pc' = "err1"
            /\ err' = exc
            /\ UNCHANGED <<idx, params, raised>>
       ELSE IF exc.type = "OSError" /\ exc.what = "ECONNRESET"
       THEN \* except OSError: ECONNRESET is skipped; finally
            /\ pc' = "close"
            /\ UNCHANGED <<idx, params, err, raised>>
       ELSE \* raised again, or not caught at all; finally
            /\ pc' = "close"
            /\ raised' = exc
            /\ UNCHANGED <<idx, params, err>>

\* the environment raises exc where the task stands
Fault(exc) ==
    /\ faults < MaxFaults
    /\ faults' = faults + 1
    /\ thrown' = exc
    /\ thrownAt' = pc

\* Request.setup, called before handle's try: the request line is read
setup(line) ==
    /\ pc = "setup"
    /\ LET items == SplitWs(line)
       IN  /\ linesRead' = linesRead + 1
           /\ nItems' = Len(items)
           /\ IF Len(items) # 3
              THEN UNCHANGED <<method, path, version>>
              ELSE /\ method' = items[1]
                   /\ version' = items[3]
                   /\ path' = PathOf(items[2])
    /\ pc' = "version"
    /\ UNCHANGED <<sched, table, headers, reqRoute, params, found, idx, via, handler,
                   filename, fileOpen, blocks, err, raised, chain, closed, written,
                   hdrLine, lastOpen, invoked, thrown, thrownAt, faults>>

\* Request.setup: reader.readline raises; no try of handle is on the stack
setupFault(errno) ==
    /\ pc = "setup"
    /\ Fault(OSError(errno))
    /\ pc' = "done"
    /\ raised' = OSError(errno)
    /\ UNCHANGED <<sched, table, request, found, idx, via, handler, filename, fileOpen,
                   blocks, err, chain, stream, nItems, hdrLine, lastOpen, invoked>>

\* lines 193-194
checkVersion ==
    /\ pc = "version"
    /\ IF ~VersionSupported(version)
       THEN Throw(HttpError(505, "Version Not Supported"))
       ELSE /\ pc' = "headers"
            /\ UNCHANGED <<idx, params, err, raised, via, handler, filename, blocks,
                           chain, fileOpen>>
    /\ UNCHANGED <<sched, table, method, path, version, headers, reqRoute, found, stream,
                   history>>

\* lines 196-207: one round of the header loop
readHeader(line) ==
    /\ pc = "headers"
    /\ linesRead <= MaxHeaderLines + (IF line # <<>> THEN 0 ELSE 1)
    /\ linesRead' = linesRead + 1
    /\ hdrLine' = line
    /\ LET items == SplitFirst(line, ":")
       IN  IF Len(items) = 2
           THEN /\ headers' =
                     IF items[1] \in requestHeadersToKeep
                     THEN [k \in DOMAIN headers \cup {items[1]} |->
                             IF k = items[1] THEN Strip(items[2]) ELSE headers[k]]
                     ELSE headers
                /\ pc' = "headers"
                /\ UNCHANGED <<idx, found>>
           ELSE \* len(items) == 1: break; found = False and the for loop begins
                /\ pc' = "scan"
                /\ idx' = 1
                /\ found' = FALSE
                /\ UNCHANGED headers
    /\ UNCHANGED <<sched, table, method, path, version, reqRoute, params, via, handler,
                   filename, fileOpen, blocks, err, raised, chain, closed, written,
                   nItems, lastOpen, invoked, thrown, thrownAt, faults>>

\* line 197: reader.readline raises
readHeaderFault(errno) ==
    /\ pc = "headers"
    /\ Fault(OSError(errno))
    /\ Throw(OSError(errno))
    /\ UNCHANGED <<sched, table, method, path, version, headers, reqRoute, found, stream,
                   nItems, hdrLine, lastOpen, invoked>>

\* lines 210-235: one round of the for loop over the route list rs, up to the
\* call of generateOutput
tryRouteIn(rs) ==
    /\ pc = "scan"
    /\ idx <= Len(rs)
    /\ LET rc == rs[idx]
           go(how, ps, rt) ==
               /\ found' = TRUE
               /\ via' = how
               /\ params' = ps
               /\ reqRoute' = rt
               /\ handler' = rc.handler
               /\ chain' = 0
               /\ invoked' = Append(invoked,
                    [idx |-> idx, handler |-> rc.handler, params |-> ps, via |-> how])
               /\ pc' = "gen"
               /\ UNCHANGED idx
           skip ==
               /\ idx' = idx + 1
               /\ UNCHANGED <<pc, found, via, params, reqRoute, handler, chain, invoked>>
       IN  IF RouteLen(rc) > 2 /\ ~MethodAllowed(rc, method) THEN skip
           ELSE IF path = rc.pattern THEN go("exact", params, reqRoute)
           ELSE IF RouteLen(rc) > 3
           THEN LET m == ReMatch(rc.regex[1], path)
                IN  IF m.ok
                    THEN go("regex", params \o Groups(rc, m), rc.pattern)
                    ELSE skip
           ELSE skip
    /\ UNCHANGED <<sched, table, method, path, version, headers, filename, fileOpen,
                   blocks, err, raised, stream, nItems, hdrLine, lastOpen, thrown,
                   thrownAt, faults>>

\* the loop runs over self.routes
tryRoute == tryRouteIn(routes)

\* the for loop is exhausted, or left by break: lines 239-240, then finally
endScan ==
    /\ \/ pc = "scan" /\ idx > Len(routes)
       \/ pc = "endscan"
    /\ IF ~found
       THEN Throw(HttpError(404, "File Not Found"))
       ELSE /\ pc' = "close"
            /\ UNCHANGED <<idx, params, err, raised, via, handler, filename, blocks,
                           chain, fileOpen>>
    /\ UNCHANGED <<sched, table, method, path, version, headers, reqRoute, found, stream,
                   history>>

\* generateOutput returns: while handler is falsy, or break after sendFile
genReturn ==
    /\ pc' = "endscan"
    /\ Unwind

\* generateOutput, line 180: the handler in hand is empty
genDone ==
    /\ pc = "gen"
    /\ handler.kind = "none"
    /\ genReturn
    /\ UNCHANGED <<sched, table, request, found, idx, err, raised, stream, history>>

\* generateOutput, lines 181-182: the handler is a string; sendFile is entered
genString ==
    /\ pc = "gen"
    /\ handler.kind = "str"
    /\ filename' = handler.val
    /\ blocks' = 0
    /\ pc' = "open"
    /\ UNCHANGED <<sched, table, request, found, idx, via, handler, fileOpen, err, raised,
                   chain, stream, history>>

\* generateOutput, line 185, the callable being fileRouteHandler: sendFile is
\* entered with the name under webroot, and the handler's result is None
genFileRoute ==
    /\ pc = "gen"
    /\ handler = fileRouteHandler
    /\ filename' = fileRouteName(path)
    /\ blocks' = 0
    /\ handler' = NoHandler
    /\ pc' = "open"
    /\ UNCHANGED <<sched, table, request, found, idx, via, fileOpen, err, raised, chain,
                   stream, history>>

\* what an application handler returns
HandlerResults ==
    { NoHandler, FilePath(<<"f", ".", "txt">>), Callable("h1") }

\* generateOutput, line 185, the callable being an application handler: it
\* writes a body that echoes request.params and returns res
genCall(res) ==
    /\ pc = "gen"
    /\ handler.kind = "callable" /\ handler # fileRouteHandler
    /\ res.kind = "callable" => chain < MaxChain
    /\ chain' = IF res.kind = "callable" THEN chain + 1 ELSE chain
    /\ written' = Append(written, [kind |-> "body", text |-> params])
    /\ handler' = res
    /\ UNCHANGED <<sched, table, request, pc, found, idx, via, filename, fileOpen, blocks,
                   err, raised, closed, linesRead, history>>

\* what an application handler raises: an error of its own, or the OSError of
\* a write it awaited
HandlerFaults == {OtherError} \cup {OSError(e) : e \in TransportFaults}

\* generateOutput, line 185: the application handler raises
genCallRaise(exc) ==
    /\ pc = "gen"
    /\ handler.kind = "callable" /\ handler # fileRouteHandler
    /\ Fault(exc)
    /\ Throw(exc)
    /\ UNCHANGED <<sched, table, method, path, version, headers, reqRoute, found, stream,
                   nItems, hdrLine, lastOpen, invoked>>

\* sendFile, line 103: open(filename); res is "ok" or the errno of the OSError
sendFileOpen(res) ==
    /\ pc = "open"
    /\ lastOpen' = res
    /\ IF res = "ok"
       THEN /\ fileOpen' = TRUE
            /\ pc' = "w_status"
            /\ UNCHANGED <<idx, params, err, raised, via, handler, filename, blocks,
                           chain, thrown, thrownAt, faults>>
       ELSE /\ Fault(OSError(res))
            /\ Throw(sendFileExcept(res))
    /\ UNCHANGED <<sched, table, method, path, version, headers, reqRoute, found, stream,
                   nItems, hdrLine, invoked>>

\* what sendFile writes at each of its steps before the blocks
SendFileItem(at) ==
    IF at = "w_status" THEN [kind |-> "status", code |-> 200, text |-> "OK"]
    ELSE IF at = "w_ctype" THEN [kind |-> "header", text |-> mimeType(filename)]
    ELSE [kind |-> "blank"]

SendFileNext(at) ==
    IF at = "w_status" THEN "w_ctype" ELSE IF at = "w_ctype" THEN "w_blank" ELSE "read"

\* sendFile, lines 104-106: Response.start, the Content-type line, startBody
sendFileHead ==
    /\ pc \in {"w_status", "w_ctype", "w_blank"}
    /\ written' = Append(written, SendFileItem(pc))
    /\ pc' = SendFileNext(pc)
    /\ UNCHANGED <<sched, table, request, found, idx, via, handler, filename, fileOpen,
                   blocks, err, raised, chain, closed, linesRead, history>>

\* a sendFile after which generateOutput does not break: the string handler
\* stays in hand
sendFileReadOn(more) ==
    /\ pc = "read"
    /\ more => blocks < MaxBlocks
    /\ IF more
       THEN /\ blocks' = blocks + 1
            /\ pc' = "w_data"
            /\ UNCHANGED fileOpen
       ELSE /\ fileOpen' = FALSE
            /\ pc' = "gen"
            /\ UNCHANGED blocks
    /\ UNCHANGED <<sched, table, request, found, idx, via, filename, handler, err, raised,
                   chain, stream, history>>

\* sendFile, lines 108-110: fileHandle.read returns a block, or nothing at the
\* end of the file, which ends sendFile
sendFileRead(more) ==
    /\ pc = "read"
    /\ more => blocks < MaxBlocks
    /\ IF more
       THEN /\ blocks' = blocks + 1
            /\ pc' = "w_data"
            /\ UNCHANGED <<fileOpen, handler>>
       ELSE /\ fileOpen' = FALSE
            /\ pc' = "gen"
            /\ handler' = IF handler.kind = "str" THEN NoHandler ELSE handler
            /\ UNCHANGED blocks
    /\ UNCHANGED <<sched, table, request, found, idx, via, filename, err, raised, chain,
                   stream, history>>

\* sendFile, line 111
sendFileData ==
    /\ pc = "w_data"
    /\ written' = Append(written, [kind |-> "data", text |-> filename])
    /\ pc' = "read"
    /\ UNCHANGED <<sched, table, request, found, idx, via, handler, filename, fileOpen,
                   blocks, err, raised, chain, closed, linesRead, history>>

\* sendFile: a write or fileHandle.read raises OSError; the except clause of
\* sendFile raises it again
sendFileFault(errno) ==
    /\ pc \in {"w_status", "w_ctype", "w_blank", "read", "w_data"}
    /\ Fault(OSError(errno))
    /\ Throw(sendFileExcept(errno))
    /\ UNCHANGED <<sched, table, method, path, version, headers, reqRoute, found, stream,
                   nItems, hdrLine, lastOpen, invoked>>

\* Response.error, line 123 and line 124
responseError ==
    /\ pc \in {"err1", "err2"}
    /\ written' = Append(written,
            IF pc = "err1"
            THEN [kind |-> "statusblank", code |-> err.code, text |-> err.what]
            ELSE [kind |-> "errbody", text |-> err.what])
    /\ pc' = IF pc = "err1" THEN "err2" ELSE "close"
    /\ UNCHANGED <<sched, table, request, found, idx, via, handler, filename, fileOpen,
                   blocks, err, raised, chain, closed, linesRead, history>>

\* Response.error: a write raises OSError
responseErrorFault(errno) ==
    /\ pc \in {"err1", "err2"}
    /\ Fault(OSError(errno))
    /\ Throw(OSError(errno))
    /\ UNCHANGED <<sched, table, method, path, version, headers, reqRoute, found, stream,
                   nItems, hdrLine, lastOpen, invoked>>

\* the running task stands where it awaits I/O (readline, awrite, read,
\* aclose, or an application handler that may await), or has not begun or has
\* ended
Suspended ==
    \/ pc \in {"idle", "done", "setup", "headers", "w_status", "w_ctype", "w_blank",
               "read", "w_data", "err1", "err2", "close"}
    \/ pc = "gen" /\ handler.kind = "callable" /\ handler # fileRouteHandler

\* the event loop: the running task is suspended at its await and the other
\* task is resumed where it was suspended
resume ==
    /\ started
    /\ Suspended
    /\ cur' = 3 - cur
    /\ parked' = Local
    /\ method' = parked.method
    /\ path' = parked.path
    /\ version' = parked.version
    /\ headers' = parked.headers
    /\ reqRoute' = parked.reqRoute
    /\ params' = parked.params
    /\ pc' = parked.pc
    /\ found' = parked.found
    /\ idx' = parked.idx
    /\ via' = parked.via
    /\ handler' = parked.handler
    /\ filename' = parked.filename
    /\ fileOpen' = parked.fileOpen
    /\ blocks' = parked.blocks
    /\ err' = parked.err
    /\ raised' = parked.raised
    /\ chain' = parked.chain
    /\ closed' = parked.closed
    /\ written' = parked.written
    /\ linesRead' = parked.linesRead
    /\ nItems' = parked.nItems
    /\ hdrLine' = parked.hdrLine
    /\ lastOpen' = parked.lastOpen
    /\ invoked' = parked.invoked
    /\ thrown' = parked.thrown
    /\ thrownAt' = parked.thrownAt
    /\ faults' = parked.faults
    /\ UNCHANGED table

\* finally: await writer.aclose(); then the task ends, or raised leaves it
close ==
    /\ pc = "close"
    /\ closed' = TRUE
    /\ pc' = "done"
    /\ UNCHANGED <<sched, table, request, found, idx, via, handler, filename, fileOpen,
                   blocks, err, raised, chain, written, linesRead, history>>

Next ==
    \/ \E rc \in RoutePool : route(rc)
    \/ \E r \in ShortRoutePool : appendRoutes(r)
    \/ runAsync
    \/ accept
    \/ \E line \in RequestLines : setup(line)
    \/ \E e \in TransportFaults : setupFault(e)
    \/ checkVersion
    \/ \E line \in HeaderLines \cup {<<>>} : readHeader(line)
    \/ \E e \in TransportFaults : readHeaderFault(e)
    \/ tryRoute
    \/ endScan
    \/ genDone
    \/ genString
    \/ genFileRoute
    \/ \E res \in HandlerResults : genCall(res)
    \/ \E exc \in HandlerFaults : genCallRaise(exc)
    \/ \E res \in {"ok", "ENOENT", "EACCES"} : sendFileOpen(res)
    \/ sendFileHead
    \/ \E more \in BOOLEAN : sendFileRead(more)
    \/ sendFileData
    \/ \E e \in TransportFaults : sendFileFault(e)
    \/ responseError
    \/ \E e \in TransportFaults : responseErrorFault(e)
    \/ close

Spec == Init /\ [][Next]_vars

\* the request lines of a peer whose stream may end before the request line
\* or within it
LiveLines ==
    { <<>>, <<"GET", " ", "/">> }
    \cup { <<m, " ">> \o u \o <<" ", "HTTP/1.1">> :
             m \in {"GET", "POST"}, u \in Urls \ {<<"/", "a", "?", "q">>} }

\* a step of the per-connection task on a stream that does not fail: the
\* peer's lines, then the end of the stream
handleStep ==
    \/ \E line \in LiveLines : setup(line)
    \/ checkVersion
    \/ \E line \in HeaderLines \cup {<<>>} : readHeader(line)
    \/ tryRoute
    \/ endScan
    \/ genDone
    \/ genString
    \/ genFileRoute
    \/ \E res \in HandlerResults : genCall(res)
    \/ genCallRaise(OtherError)
    \/ \E res \in {"ok", "ENOENT", "EACCES"} : sendFileOpen(res)
    \/ sendFileHead
    \/ \E more \in BOOLEAN : sendFileRead(more)
    \/ sendFileData
    \/ responseError
    \/ close

NextLive ==
    \/ \E rc \in RoutePool : route(rc)
    \/ \E r \in ShortRoutePool : appendRoutes(r)
    \/ runAsync
    \/ accept
    \/ handleStep

\* the event loop goes on running a task that can take a step: the peer's
\* input is finite and ends, files end, and handlers return or raise
SpecLive == Init /\ [][NextLive]_vars /\ WF_vars(handleStep)

\* the request lines of well-formed requests of a supported version
DispatchLines ==
    { <<m, " ">> \o u \o <<" ", "HTTP/1.1">> : m \in {"GET", "POST"}, u \in Urls }

\* the server with an application that may call compileRegexRoutes itself
\* before runAsync, serving well-formed requests over a transport that does
\* not fail
NextTwice ==
    \/ \E rc \in RoutePool : route(rc)
    \/ \E r \in ShortRoutePool : appendRoutes(r)
    \/ callCompileRegexRoutes
    \/ runAsync
    \/ accept
    \/ \E line \in DispatchLines : setup(line)
    \/ checkVersion
    \/ readHeader(<<>>)
    \/ tryRoute
    \/ endScan
    \/ genDone
    \/ genString
    \/ genFileRoute
    \/ \E res \in HandlerResults : genCall(res)
    \/ genCallRaise(OtherError)
    \/ \E res \in {"ok", "ENOENT"} : sendFileOpen(res)
    \/ sendFileHead
    \/ \E more \in BOOLEAN : sendFileRead(more)
    \/ sendFileData
    \/ responseError
    \/ close

SpecTwice == Init /\ [][NextTwice]_vars

\* request lines whose url is spelt with "*" characters
StarLines ==
    { <<m, " ", "/", "*", "*", " ", "HTTP/1.1">> : m \in {"GET", "POST"} }

\* the server with an application that may also register a pattern of two
\* "*", serving well-formed requests, those for "/**" among them, over a
\* transport that does not fail
NextStar ==
    \/ \E rc \in RoutePool \cup StarRoutePool : route(rc)
    \/ \E r \in ShortRoutePool : appendRoutes(r)
    \/ runAsync
    \/ accept
    \/ \E line \in DispatchLines \cup StarLines : setup(line)
    \/ checkVersion
    \/ readHeader(<<>>)
    \/ tryRoute
    \/ endScan
    \/ genDone
    \/ genString
    \/ genFileRoute
    \/ \E res \in HandlerResults : genCall(res)
    \/ genCallRaise(OtherError)
    \/ \E res \in {"ok", "ENOENT"} : sendFileOpen(res)
    \/ sendFileHead
    \/ \E more \in BOOLEAN : sendFileRead(more)
    \/ sendFileData
    \/ responseError
    \/ close

SpecStar == Init /\ [][NextStar]_vars

\* the request lines and the header lines of the two connections served at
\* the same time
TaskLines ==
    { <<"GET", " ", "/", " ", "HTTP/1.1">>, <<"GET", " ", "/", "a", " ", "HTTP/1.1">>,
      <<"POST", " ", "/", "a", " ", "HTTP/1.1">> }

TaskHeaderLines == { <<"Content-Type", ":", " ", "v">>, <<>> }

\* the server with its default routes and two per-connection tasks, of which
\* the event loop runs one at a time and switches at the awaits
NextTasks ==
    \/ runAsync
    \/ accept
    \/ resume
    \/ \E line \in TaskLines : setup(line)
    \/ checkVersion
    \/ \E line \in TaskHeaderLines : readHeader(line)
    \/ tryRoute
    \/ endScan
    \/ genDone
    \/ genFileRoute
    \/ \E res \in {"ok", "ENOENT"} : sendFileOpen(res)
    \/ sendFileHead
    \/ \E more \in BOOLEAN : sendFileRead(more)
    \/ sendFileData
    \/ responseError
    \/ close

SpecTasks == Init /\ [][NextTasks]_vars

\* the server with its default routes, serving well-formed requests whose
\* header block may also be ended by a line that is not blank
NextHeaders ==
    \/ runAsync
    \/ accept
    \/ \E line \in DispatchLines : setup(line)
    \/ checkVersion
    \/ \E line \in HeaderLines \cup NoColonLines \cup {<<>>} : readHeader(line)
    \/ \E e \in TransportFaults : readHeaderFault(e)
    \/ tryRoute
    \/ endScan
    \/ genDone
    \/ genFileRoute
    \/ \E res \in {"ok", "ENOENT"} : sendFileOpen(res)
    \/ sendFileHead
    \/ \E more \in BOOLEAN : sendFileRead(more)
    \/ sendFileData
    \/ responseError
    \/ close

SpecHeaders == Init /\ [][NextHeaders]_vars

\* ------------------------------------------------------------ properties
\* the segment count of a pattern: the pieces between "/" once every "*" is
\* replaced by "/", that is one more than its "/" and "*" characters
SegmentCount(p) == 1 + Count(p, "/") + Count(p, "*")

\* a routeConfig without the matchers compile appended
Registered(rc) == [pattern |-> rc.pattern, handler |-> rc.handler, methods |-> rc.methods]

\* the routes of rs, without their matchers, whose segment count is k
WithCount(rs, k) ==
    LET Is(rc) == SegmentCount(rc.pattern) = k
    IN  SelectSeq([i \in 1..Len(rs) |-> Registered(rs[i])], Is)

\* C8: in the state runAsync leaves (compiled, sorted, no connection accepted
\* yet) the route sequence holds the registered routes in ascending order of
\* segment count, and routes of equal segment count stand in the order they
\* were registered in.
C8_SortedStable ==
    (started /\ pc = "idle") =>
      /\ Len(routes) = Len(regOrder)
      /\ \A i \in 1..(Len(routes) - 1) :
           SegmentCount(routes[i].pattern) <= SegmentCount(routes[i + 1].pattern)
      /\ \A n \in 1..Len(regOrder) :
           LET k == SegmentCount(regOrder[n].pattern)
           IN  WithCount(routes, k) = WithCount(regOrder, k)

\* C8 witness: the sort moved a later registered route in front of an earlier
\* one and left two routes of equal segment count next to each other
C8_Witness ==
    /\ started /\ pc = "idle"
    /\ \E i \in 1..Len(routes) : Registered(routes[i]) # Registered(regOrder[i])
    /\ \E i \in 1..(Len(routes) - 1) :
         /\ SegmentCount(routes[i].pattern) = SegmentCount(routes[i + 1].pattern)
         /\ routes[i].pattern # routes[i + 1].pattern

\* the items Response.error writes for a status code and a reason
ErrorResponse(code, reason) ==
    << [kind |-> "statusblank", code |-> code, text |-> reason],
       [kind |-> "errbody", text |-> reason] >>

IsPrefix(a, b) == Len(a) <= Len(b) /\ a = SubSeq(b, 1, Len(a))

\* the request line has been read
LineRead == linesRead >= 1

\* C1: whichever step ends the per-connection task, the stream has been closed
\* when the task ends or a fault leaves it.
C1_ClosedOnEveryExit == pc = "done" => closed

\* C2: a request line without exactly three tokens is abandoned silently:
\* nothing is written, no header line is read, no route is tried, and the
\* stream is closed.
C2_MalformedSilent ==
    (LineRead /\ nItems # 3) =>
        /\ written = <<>>
        /\ linesRead = 1
        /\ idx = 0 /\ invoked = <<>>
        /\ pc = "done" => closed

\* C3: a request routed to the built-in file handler whose file does not exist
\* has received the 404 File Not Found error response when the task ends.
C3_MissingFile404 ==
    ( /\ pc = "done"
      /\ invoked # <<>>
      /\ invoked[Len(invoked)].handler = fileRouteHandler
      /\ lastOpen = "ENOENT"
      /\ faults = 1 )
    => written = ErrorResponse(404, "File Not Found")

\* C4: once a wildcard route has matched and its handler has raised, params is
\* empty again and no further route's handler is invoked for the request.
C4_NoRetryAfterWildcard ==
    /\ \A i \in 1..Len(invoked) : invoked[i].via = "regex" => i = Len(invoked)
    /\ ( /\ pc = "scan"
         /\ invoked # <<>>
         /\ invoked[Len(invoked)].via = "regex" ) => params = <<>>

Fatal(exc) == exc.type = "OSError" /\ exc.what \notin {"ENOENT", "ECONNRESET"}

\* C6: a fatal fault raised during dispatch (in a handler, in sendFile's open,
\* read or writes) leaves the task to its caller, after the stream is closed,
\* whichever route led to the handler.
C6_FatalPropagates ==
    (pc = "done" /\ Fatal(thrown) /\ thrownAt \in GenPcs)
    => (raised = thrown /\ closed)

\* C7: a peer abort (ECONNRESET) raised at any I/O point is swallowed: the task
\* ends without raising and with the stream closed.
C7_PeerAbortSwallowed ==
    (pc = "done" /\ thrown = OSError("ECONNRESET"))
    => (raised = NoError /\ closed)

\* the allowed-method set of a route
MethodSet(rc) == LET ms == Split(rc.methods, ",") IN { ms[i] : i \in 1..Len(ms) }

\* the non-empty pieces of s that hold no "/"
Segments(s) ==
    { SubSeq(s, a, b) : a \in 1..Len(s), b \in 1..Len(s) } \ {<<>>}

SlashFree(s) == \A i \in 1..Len(s) : s[i] # "/"

RECURSIVE Substitute(_, _)
\* the pattern with its "*" markers replaced, left to right, by the strings caps
Substitute(p, caps) ==
    IF p = <<>> THEN <<>>
    ELSE IF Head(p) = "*" /\ caps # <<>> THEN Head(caps) \o Substitute(Tail(p), Tail(caps))
    ELSE <<Head(p)>> \o Substitute(Tail(p), caps)

\* the path is the pattern with each "*" standing for one or more non-"/"
\* characters
WildMatches(p, s) ==
    /\ Count(p, "*") >= 1
    /\ \E caps \in [1..Count(p, "*") -> { c \in Segments(s) : SlashFree(c) }] :
           Substitute(p, caps) = s

\* the route matches the path verbatim or by its wildcards
RouteMatches(rc, s) == rc.pattern = s \/ WildMatches(rc.pattern, s)

\* the positions, in table order, of the routes that allow the request method
\* and match the request path: the matches of the table without the routes
\* that do not allow the method
MatchIdx ==
    LET Hit(i) == method \in MethodSet(routes[i]) /\ RouteMatches(routes[i], path)
    IN  SelectSeq([i \in 1..Len(routes) |-> i], Hit)

\* C9: routes that do not allow the request method are skipped as if absent.
\* Whenever the route loop invokes a handler, it is the handler of the next
\* route, in table order, among those that allow the method and match the path
\* (the first invoked is the first such route); and when the loop runs out
\* without having invoked any, there is no such route and the 404 is raised.
C9_MethodFilter ==
    [][ /\ Len(invoked') > Len(invoked) =>
             LET k == Len(invoked')
             IN  /\ k <= Len(MatchIdx)
                 /\ invoked'[k].idx = MatchIdx[k]
                 /\ invoked'[k].handler = routes[MatchIdx[k]].handler
        /\ (pc = "scan" /\ idx > Len(routes) /\ pc' # "scan" /\ invoked = <<>>) =>
             /\ MatchIdx = <<>>
             /\ pc' = "err1"
             /\ err' = HttpError(404, "File Not Found")
        /\ (pc = "scan" /\ idx > Len(routes) /\ pc' # "scan" /\ invoked # <<>>) =>
             pc' = "close"
      ]_vars

\* C9 witness: the route whose handler is invoked stands behind a route that
\* matches the path but does not allow the method
C9_Witness ==
    /\ invoked # <<>>
    /\ \E i \in 1..(invoked[1].idx - 1) :
         /\ RouteMatches(routes[i], path)
         /\ method \notin MethodSet(routes[i])

\* C10: when the handler of a route with k wildcards is invoked, request.params
\* holds exactly k strings, each one or more non-"/" characters, and the
\* pattern with its wildcards replaced by them, left to right, is the path.
C10_WildcardParams ==
    \A n \in 1..Len(invoked) :
        LET p == routes[invoked[n].idx].pattern
            ps == invoked[n].params
        IN  /\ Len(ps) = Count(p, "*")
            /\ \A g \in 1..Len(ps) : ps[g] # <<>> /\ SlashFree(ps[g])
            /\ Substitute(p, ps) = path

\* the route at position i of the table is a wildcard route
IsWildcard(i) == Contains(routes[i].pattern, "*")

\* the route loop stands at a route that allows the request method and whose
\* pattern is the request path, character for character
AtLiteralRoute ==
    /\ pc = "scan"
    /\ idx \in 1..Len(routes)
    /\ routes[idx].pattern = path
    /\ method \in MethodSet(routes[idx])

\* C11: when the route loop comes to a route that allows the method and whose
\* pattern equals the request path, every route of strictly smaller segment
\* count has been tried already (it stands before it in the table) and no
\* wildcard route of strictly greater segment count has been tried yet (it
\* stands behind it, and no handler behind it has been invoked), whatever the
\* order the routes were registered in.
C11_LiteralOrder ==
    AtLiteralRoute =>
      /\ \A j \in 1..Len(routes) :
           /\ SegmentCount(routes[j].pattern) < SegmentCount(path) => j < idx
           /\ ( /\ IsWildcard(j)
                /\ SegmentCount(routes[j].pattern) > SegmentCount(path) ) => j > idx
      /\ \A n \in 1..Len(invoked) : invoked[n].idx < idx

\* C11 witness: the loop stands at the literal route, which was registered
\* after a wildcard route of greater segment count that now stands behind it
C11_Witness ==
    /\ AtLiteralRoute
    /\ \E j \in (idx + 1)..Len(routes) :
         /\ IsWildcard(j)
         /\ SegmentCount(routes[j].pattern) > SegmentCount(path)
         /\ \E a, b \in 1..Len(regOrder) :
              /\ a < b
              /\ Registered(regOrder[a]) = Registered(routes[j])
              /\ Registered(regOrder[b]) = Registered(routes[idx])

\* what Response.start and Response.error write first: a status line
IsStatusLine(w) == w.kind \in {"status", "statusblank"}

\* a fragment of a response body written by sendFile or Response.error
IsBodyFragment(w) == w.kind \in {"data", "errbody"}

\* C12: what the server itself writes on one connection is a single response:
\* no status line follows an earlier status line, and no status line or header
\* line follows a fragment of a body, on the error paths as well.  (What the
\* application's own handlers write is left out of account.)
C12_SingleResponse ==
    \A i, j \in 1..Len(written) :
        i < j =>
          /\ ~(IsStatusLine(written[i]) /\ IsStatusLine(written[j]))
          /\ ~( /\ IsBodyFragment(written[i])
                /\ (IsStatusLine(written[j]) \/ written[j].kind = "header") )

\* only the two default routes are registered
DefaultRoutesOnly == regOrder = DefaultRoutes

\* the request path is "/" followed by a name without "/" (possibly empty)
TopLevelPath == path # <<>> /\ Head(path) = "/" /\ SlashFree(Tail(path))

\* the file under the document root that a top-level path stands for
DocumentFile(p) == webroot \o <<"/">> \o (IF Tail(p) = <<>> THEN indexFile ELSE Tail(p))

\* C13: with only the default routes, a GET request for "/" or for "/<name>" is
\* handed to the file route handler, never left unmatched, and the file
\* sendFile works on is the index file under the document root for "/" and
\* <name> under the document root for "/<name>"; so GET / and GET /index.html
\* both serve R/index.html.
C13_DefaultFiles ==
    ( /\ DefaultRoutesOnly
      /\ method = <<"GET">>
      /\ TopLevelPath ) =>
        /\ \A n \in 1..Len(invoked) : invoked[n].handler = fileRouteHandler
        /\ (pc \in {"endscan", "err1", "err2"} /\ idx >= 1) => invoked # <<>>
        /\ pc \in (GenPcs \ {"gen"}) =>
             /\ filename = DocumentFile(path)
             /\ path \in {<<"/">>, <<"/", "index", ".", "html">>} =>
                  filename = <<".", "/", "index", ".", "html">>

\* C13 witness: GET /index.html is being served from R/index.html, reached
\* through the default wildcard route
C13_Witness ==
    /\ DefaultRoutesOnly
    /\ method = <<"GET">>
    /\ path = <<"/", "index", ".", "html">>
    /\ pc = "w_data"
    /\ filename = <<".", "/", "index", ".", "html">>
    /\ invoked[Len(invoked)].via = "regex"

\* the table runAsync builds when compileRegexRoutes runs once: the routes as
\* they were registered, compiled once and sorted
OnceCompiled == sorted(compileRegexRoutes(regOrder))

\* C14: when compileRegexRoutes has run more than once before the sort, the
\* table holds the same routes in the same order as after one run, and every
\* round of the route loop has the outcome it would have on the table compiled
\* once: the same route is skipped or selected, by the same kind of match,
\* with the same captured params.
C14_CompileIdempotent ==
    [][ /\ started =>
             /\ Len(routes) = Len(OnceCompiled)
             /\ \A i \in 1..Len(routes) :
                  Registered(routes[i]) = Registered(OnceCompiled[i])
        /\ tryRoute => tryRouteIn(OnceCompiled)
      ]_vars

\* C14 witness: a route compiled twice has been selected through its matcher
\* and its handler invoked with a captured param
C14_Witness ==
    /\ pc = "gen"
    /\ via = "regex"
    /\ Len(routes[idx].regex) = 2
    /\ params # <<>>

\* no route of the table allows the request method and matches the request
\* path, verbatim or by its wildcards
NoRouteMatches == MatchIdx = <<>>

\* the task is on the error path of a request no handler was invoked for
Answering404 == err = HttpError(404, "File Not Found") /\ invoked = <<>>

\* C15: for a well-formed request of a supported version that no route
\* allowing the method matches, no handler is invoked; when the route loop
\* runs out, HttpError 404 File Not Found is caught inside the task, and the
\* error response (the status line with the blank line and nothing else, then
\* the body with the reason) is written, complete when no write fails, before
\* the stream is closed; the task ends without the HttpError leaving it.
C15_NoMatch404 ==
    [][ /\ Len(invoked') > Len(invoked) => ~NoRouteMatches
        /\ (pc = "scan" /\ idx > Len(routes) /\ pc' # "scan" /\ NoRouteMatches) =>
             /\ invoked = <<>>
             /\ written = <<>>
             /\ pc' = "err1"
             /\ err' = HttpError(404, "File Not Found")
        /\ (Answering404 /\ pc \in {"err1", "err2"}) =>
             /\ ~closed
             /\ IsPrefix(written', ErrorResponse(404, "File Not Found"))
             /\ pc' = "close" =>
                  \/ written' = ErrorResponse(404, "File Not Found") /\ raised' = NoError
                  \/ faults' = 1 /\ raised'.type # "HttpError"
        /\ (Answering404 /\ pc = "close") =>
             /\ pc' = "done" /\ closed'
             /\ raised' = raised /\ raised.type # "HttpError"
             /\ faults = 0 => written' = ErrorResponse(404, "File Not Found")
      ]_vars

\* C15 witness: a request no route matches has been answered 404 and the
\* stream closed
C15_Witness ==
    /\ pc = "done" /\ closed
    /\ nItems = 3 /\ VersionSupported(version)
    /\ NoRouteMatches
    /\ invoked = <<>>
    /\ raised = NoError
    /\ written = ErrorResponse(404, "File Not Found")

\* how many items of kind k the sequence w holds
CountKind(w, k) == Cardinality({ i \in 1..Len(w) : w[i].kind = k })

\* the handler is one the application registered or returned
AppCallable(h) == h.kind = "callable" /\ h # fileRouteHandler

\* C16: generateOutput takes the handlers one after another.  With an empty
\* handler in hand it returns and does nothing else; with a string in hand it
\* enters sendFile for that string, and when sendFile ends the handler in hand
\* is empty, so that nothing follows; with a callable in hand it invokes it
\* once and takes its result as the next handler.  When the first
\* generateOutput of a connection returns from a chain of application
\* callables, each was invoked once (one output per callable, the first and
\* those handed back), sendFile ran at most once, and no handler ran after it.
C16_HandlerChain ==
    [][ /\ (pc = "gen" /\ handler.kind = "none") =>
             /\ pc' = "endscan"
             /\ written' = written /\ lastOpen' = lastOpen
        /\ (pc = "gen" /\ handler.kind = "str") =>
             /\ pc' = "open"
             /\ filename' = handler.val
             /\ written' = written /\ chain' = chain
        /\ (pc = "read" /\ pc' = "gen") => handler' = NoHandler
        /\ (pc = "gen" /\ AppCallable(handler) /\ pc' = "gen") =>
             /\ chain' = chain + (IF handler'.kind = "callable" THEN 1 ELSE 0)
             /\ written' = Append(written, [kind |-> "body", text |-> params])
        /\ ( /\ pc = "gen" /\ pc' = "endscan"
             /\ Len(invoked) = 1 /\ AppCallable(invoked[1].handler) ) =>
             /\ CountKind(written, "body") = chain + 1
             /\ CountKind(written, "status") <= 1
             /\ \A i, j \in 1..Len(written) :
                  (i < j /\ written[i].kind = "status") => written[j].kind # "body"
      ]_vars

\* C16 witness: a chain of two callables ending in a file path has been run
\* through: two outputs, then the file, and the handler in hand is empty
C16_Witness ==
    /\ pc = "gen"
    /\ handler = NoHandler
    /\ chain = 1
    /\ CountKind(written, "body") = 2
    /\ CountKind(written, "status") = 1
    /\ written[Len(written)].kind = "data"

\* the header names the request keeps
Whitelist == {<<"Authorization">>, <<"Content-Length">>, <<"Content-Type">>}

RECURSIVE UpTo(_, _)
\* the part of s before the first c
UpTo(s, c) == IF s = <<>> \/ Head(s) = c THEN <<>> ELSE <<Head(s)>> \o UpTo(Tail(s), c)

\* C17: the keys of request.headers are always among Authorization,
\* Content-Length and Content-Type, written exactly so.  A line read by the
\* header loop that holds a ":" keeps the loop going and raises nothing: a
\* whitelisted name is stored, any other name (a lower-case spelling too)
\* leaves the headers as they were.  The first line without ":" ends the loop,
\* and from then on no line is read and the headers do not change.
C17_HeaderWhitelist ==
    [][ /\ DOMAIN headers' \subseteq Whitelist
        /\ (pc = "headers" /\ linesRead' = linesRead + 1) =>
             IF Contains(hdrLine', ":")
             THEN /\ pc' = "headers"
                  /\ err' = err /\ raised' = raised /\ written' = written
                  /\ LET name == UpTo(hdrLine', ":")
                     IN  IF name \in Whitelist
                         THEN /\ DOMAIN headers' = DOMAIN headers \cup {name}
                              /\ \A k \in DOMAIN headers \ {name} :
                                   headers'[k] = headers[k]
                         ELSE headers' = headers
             ELSE /\ pc' = "scan"
                  /\ headers' = headers
        /\ pc \notin {"idle", "done", "setup", "headers"} =>
             /\ linesRead' = linesRead
             /\ hdrLine' = hdrLine
             /\ headers' = headers
      ]_vars

\* C17 witness: a Content-Type header spelt in lower case has been read and
\* not stored, and the header loop goes on
C17_Witness ==
    /\ pc = "headers"
    /\ hdrLine = <<"content-type", ":", "v">>
    /\ linesRead = 2
    /\ headers = <<>>

\* the positions of the routes that allow the request method and whose
\* pattern is the request path, character for character
EqualToPath ==
    { j \in 1..Len(routes) :
        routes[j].pattern = path /\ method \in MethodSet(routes[j]) }

OwnRequest(t) ==
    /\ t.headers # <<>> => t.linesRead >= 2
    /\ t.params # <<>> =>
         /\ \E n \in 1..Len(t.invoked) :
              t.invoked[n].via = "regex" /\ t.invoked[n].params = t.params
         /\ \A g \in 1..Len(t.params) : t.params[g] \in Segments(t.path)
    /\ t.reqRoute # <<>> => \E n \in 1..Len(t.invoked) : t.invoked[n].via = "regex"

\* C19: with two per-connection tasks interleaved at their awaits, the route
\* table (order, patterns, methods, handlers, matchers) never changes once the
\* server has started; a step of the running task leaves the request and all
\* other state of the waiting task as it was, and a switch hands each task
\* back exactly what it had; and what either request holds (headers, route,
\* params) comes from its own connection.
C19_TaskIsolation ==
    [][ /\ started => (started' /\ routes' = routes)
        /\ cur' = cur => parked' = parked
        /\ cur' # cur =>
             /\ parked' = Local
             /\ method' = parked.method /\ path' = parked.path
             /\ headers' = parked.headers /\ reqRoute' = parked.reqRoute
             /\ params' = parked.params
        /\ OwnRequest(Local) /\ OwnRequest(parked)
      ]_vars

\* C19 witness: both tasks are in the middle of a response; the waiting one
\* holds a header and no params, the running one holds a param and no header
C19_Witness ==
    /\ pc \in GenPcs /\ parked.pc \in GenPcs
    /\ parked.headers # <<>> /\ parked.params = <<>>
    /\ headers = <<>> /\ params # <<>>
    /\ linesRead >= 2

\* C20: on a stream whose reads do not fail, with finitely many lines and
\* then the end of the stream, and with handlers that return or raise, a task
\* that has been handed a connection reaches the close step.  The header loop
\* ends when readline returns the empty line (whether a blank line or the end
\* of the stream), and the route loop only moves forward: it goes from one
\* route to the next and never invokes a route it has passed.
C20_ReachesClose ==
    /\ [][ /\ ( /\ pc = "headers"
                /\ linesRead' = linesRead + 1
                /\ hdrLine' = <<>> ) => pc' = "scan"
           /\ (pc \in {"scan"} \cup GenPcs /\ pc' = "scan") => idx' = idx + 1
           /\ (pc = "scan" /\ pc' = "gen") =>
                /\ idx' = idx
                /\ \A n \in 1..Len(invoked) : invoked[n].idx < idx
           /\ pc \in {"scan", "endscan"} \cup GenPcs => idx' >= idx
         ]_vars
    /\ (pc = "setup") ~> (pc = "close")

\* C20 witness: the stream ended right after the request line, the route loop
\* went through the whole table, and the task stands at the close step
C20_Witness ==
    /\ pc = "close"
    /\ nItems = 3
    /\ linesRead = 2 /\ hdrLine = <<>>
    /\ idx = Len(routes) + 1
====
